---- MODULE Spec2Model ----
(***************************************************************************)
(* A model of redis-rust: the RESP codec (resp.rs), the command            *)
(* interpreter (command.rs), the connection session and the primary's      *)
(* replica registry (main.rs) and the secondary's handshake                *)
(* (replication.rs).                                                       *)
(*                                                                         *)
(* Text on the wire is a sequence of tokens: the markers "+", "$", "*",    *)
(* decimal numerals, payload atoms and the line terminator CRLF.  A Rust   *)
(* String is the sequence of its tokens, so "+PONG\r\n" is                 *)
(* <<"+", "PONG", CRLF>>.  A socket write appends its tokens to the        *)
(* connection's stream; stream.read returns everything that is unread.     *)
(***************************************************************************)
EXTENDS Integers, Sequences, FiniteSets, TLC

(***************************************************************************)
(* Bounds of the model.                                                    *)
(***************************************************************************)
NMock == 1          \* mock secondaries: clients that run the handshake script
NWriters == 2       \* clients that issue SET commands
NSecClients == 1    \* clients that try to connect to the secondary
MaxCmds == 1        \* commands a writer sends on its connection
MaxChunks == 2      \* writes a client of the command interpreter makes
MaxBreaks == 1      \* connections the environment breaks during a run
MaxNum == 100       \* largest decimal numeral the decoder is given
MaxTicks == 2       \* steps of 50 ms the clock makes

(***************************************************************************)
(* Connections and sessions.  Up is the connection the secondary process   *)
(* opens to its upstream: the session named Up is the primary's            *)
(* handle_client on it, the session named Cons is the secondary's          *)
(* handle_client on the same connection (the replication-stream consumer). *)
(***************************************************************************)
Up == <<"up", 0>>
Cons == <<"cons", 0>>
Mocks == {<<"mock", i>> : i \in 1..NMock}
Writers == {<<"writer", i>> : i \in 1..NWriters}
PClients == Mocks \cup Writers
SClients == {<<"sclient", i>> : i \in 1..NSecClients}
Conns == {Up} \cup PClients \cup SClients
Sess == Conns \cup {Cons}

Master == "Master"
Slave == "Slave"
Nodes == {Master, Slave}
\* The process a session runs in; its config.role is the node's name.
NodeOf(s) == IF s = Up \/ s \in PClients THEN Master ELSE Slave
\* The connection a session reads from and writes to.
ConnOf(s) == IF s = Cons THEN Up ELSE s

(***************************************************************************)
(* Strings.                                                                *)
(***************************************************************************)
CRLF == "CRLF"
LF == "LF"
RDB == "RDB"                 \* the 88 bytes of the hard-coded empty snapshot
PANIC == <<"!panic">>        \* the outcome of a Rust panic
repl_id == "8371b4fb1155b71f4a04d3e1bc3e18c4a990aeeb"
empty_file_len == 88

\* The decimal numerals and str::parse on them.
NumVal == [t \in {ToString(n) : n \in 0..MaxNum} |->
              CHOOSE n \in 0..MaxNum : ToString(n) = t]
IsNum(t) == t \in DOMAIN NumVal
NumOf(t) == NumVal[t]

\* A character that UTF-8 encodes in two bytes.
EAcute == "e-acute"

\* str::len of one token, in bytes
TokBytes(t) ==
    IF t = RDB THEN empty_file_len ELSE IF t = CRLF THEN 2 ELSE IF t = LF THEN 1
    ELSE IF t = EAcute THEN 2 ELSE Len(t)
\* str::chars().count() of one token
TokChars(t) == IF t = EAcute THEN 1 ELSE TokBytes(t)

RECURSIVE SumOver(_, _, _)
SumOver(s, i, acc) ==
    IF i > Len(s) THEN acc ELSE SumOver(s, i + 1, acc + s[i])

ByteLen(s) == SumOver([i \in 1..Len(s) |-> TokBytes(s[i])], 1, 0)
CharCount(s) == SumOver([i \in 1..Len(s) |-> TokChars(s[i])], 1, 0)

\* str::to_lowercase on the tokens the commands are made of
LowerTok(t) ==
    CASE t = "PING" -> "ping" [] t = "ECHO" -> "echo" [] t = "SET" -> "set"
      [] t = "GET" -> "get" [] t = "CONFIG" -> "config" [] t = "KEYS" -> "keys"
      [] t = "INFO" -> "info" [] t = "REPLCONF" -> "replconf"
      [] t = "PSYNC" -> "psync" [] t = "CAPA" -> "capa" [] t = "PSYNC2" -> "psync2"
      [] t = "LISTENING-PORT" -> "listening-port"
      [] OTHER -> t
to_lowercase(s) == [i \in 1..Len(s) |-> LowerTok(s[i])]

\* str::starts_with
starts_with(s, p) == Len(s) >= Len(p) /\ SubSeq(s, 1, Len(p)) = p

(***************************************************************************)
(* RespType and its serializer (resp.rs).                                  *)
(***************************************************************************)
SimpleString(s) == [type |-> "SimpleString", s |-> s]
BulkString(s) == [type |-> "BulkString", s |-> s]
NullBulkString == [type |-> "NullBulkString"]
Array(v) == [type |-> "Array", v |-> v]

serialize(f) ==
    CASE f.type = "SimpleString" -> <<"+">> \o f.s \o <<CRLF>>
      [] f.type = "BulkString" ->
            <<"$", ToString(CharCount(f.s)), CRLF>> \o f.s \o <<CRLF>>
      [] f.type = "NullBulkString" -> <<"$", "-1", CRLF>>
      [] OTHER -> PANIC

(***************************************************************************)
(* The decoder (resp.rs).                                                  *)
(***************************************************************************)
\* str::lines: split at the line terminators; a final empty line is dropped.
RECURSIVE LinesFrom(_, _, _)
LinesFrom(buf, i, cur) ==
    IF i > Len(buf)
    THEN IF cur = <<>> THEN <<>> ELSE <<cur>>
    ELSE IF buf[i] = CRLF \/ buf[i] = LF
         THEN <<cur>> \o LinesFrom(buf, i + 1, <<>>)
         ELSE LinesFrom(buf, i + 1, Append(cur, buf[i]))
lines(buf) == LinesFrom(buf, 1, <<>>)

\* line[1..].parse::<usize>() and line.replace("$", "").parse::<u32>()
ParsesAsNum(s) == Len(s) = 1 /\ IsNum(s[1])
StripDollar(line) == SelectSeq(line, LAMBDA t : t # "$")

\* The outcome of a parse step: what it produced and the next unread line.
Some(v, next) == [ok |-> "some", val |-> v, next |-> next]
None(next) == [ok |-> "none", val |-> NullBulkString, next |-> next]
Panicked == [ok |-> "panic", val |-> NullBulkString, next |-> 0]

parse_bulk_string(ls, i, length) ==
    IF i > Len(ls) THEN None(i)
    ELSE IF ByteLen(ls[i]) = length THEN Some(BulkString(ls[i]), i + 1)
    ELSE Panicked

RECURSIVE parse_element(_, _)
RECURSIVE ParseElements(_, _, _, _)
parse_element(ls, i) ==
    IF i > Len(ls) THEN None(i)
    ELSE LET line == ls[i] IN
         IF starts_with(line, <<"$">>)
         THEN IF ParsesAsNum(StripDollar(line))
              THEN parse_bulk_string(ls, i + 1, NumOf(StripDollar(line)[1]))
              ELSE Panicked
         ELSE IF starts_with(line, <<"*">>)
         THEN IF ParsesAsNum(Tail(line))
              THEN ParseElements(ls, i + 1, NumOf(line[2]), <<>>)
              ELSE None(i + 1)
         ELSE Some(SimpleString(line), i + 1)

\* for _ in 0..count { if let Some(element) = parse_element(lines) { push } }
ParseElements(ls, i, count, acc) ==
    IF count = 0 \/ i > Len(ls) THEN Some(Array(acc), i)
    ELSE LET r == parse_element(ls, i) IN
         IF r.ok = "panic" THEN Panicked
         ELSE ParseElements(ls, r.next, count - 1,
                            IF r.ok = "some" THEN Append(acc, r.val) ELSE acc)

\* The while loop of parse_message: the frames of the whole buffer.
RECURSIVE ParseTop(_, _, _)
ParseTop(ls, i, resp) ==
    IF i > Len(ls) THEN Some(resp, i)
    ELSE LET r == parse_element(ls, i) IN
         IF r.ok = "panic" THEN Panicked
         ELSE ParseTop(ls, r.next, IF r.ok = "some" THEN Append(resp, r.val) ELSE resp)

(***************************************************************************)
(* Command and Command::from_resp (command.rs).                            *)
(***************************************************************************)
NoTtl == -1
CmdPing == [name |-> "Ping"]
CmdEcho(a) == [name |-> "Echo", arg |-> a]
CmdSet(k, v, t) == [name |-> "Set", key |-> k, value |-> v, ttl |-> t]
\* GET taken for a SET of the empty value.
CmdGet_as_set(k) == [name |-> "Set", key |-> k, value |-> <<>>, ttl |-> NoTtl]
CmdGet(k) == [name |-> "Get", key |-> k]
CmdConfigGet(k) == [name |-> "ConfigGet", key |-> k]
CmdKeys(k) == [name |-> "Keys", arg |-> k]
CmdInfo == [name |-> "Info"]
\* An unsupported command taken for PING.
CmdUnknown_as_ping == [name |-> "Ping"]
CmdUnknown == [name |-> "Unknown"]
CmdReplConf(a) == [name |-> "ReplConf", arg |-> a]
CmdPSync == [name |-> "PSync"]
CmdPanic == [name |-> "!panic"]     \* the decoder aborted: no command

\* inner_resp.get(i) when it is a BulkString (i counts from 0 in the source)
IsBulkAt(v, i) == Len(v) >= i + 1 /\ v[i + 1].type = "BulkString"
BulkOrDefault(v, i) == IF IsBulkAt(v, i) THEN v[i + 1].s ELSE <<>>

from_resp(resp) ==
    IF Len(resp) = 0 \/ resp[1].type # "Array" THEN CmdUnknown
    ELSE LET inner == resp[1].v IN
    IF Len(inner) = 0 \/ inner[1].type # "BulkString" THEN CmdUnknown
    ELSE LET c == to_lowercase(inner[1].s) IN
    CASE c = <<"ping">> -> CmdPing
      [] c = <<"echo">> ->
            IF IsBulkAt(inner, 1) THEN CmdEcho(inner[2].s) ELSE CmdUnknown
      [] c = <<"set">> ->
            CmdSet(BulkOrDefault(inner, 1), BulkOrDefault(inner, 2),
                   IF IsBulkAt(inner, 4) /\ ParsesAsNum(inner[5].s)
                   THEN NumOf(inner[5].s[1]) ELSE NoTtl)
      [] c = <<"get">> ->
            IF IsBulkAt(inner, 1) THEN CmdGet(inner[2].s) ELSE CmdUnknown
      [] c = <<"config">> ->
            IF IsBulkAt(inner, 1) /\ to_lowercase(inner[2].s) = <<"get">>
               /\ IsBulkAt(inner, 2)
            THEN CmdConfigGet(inner[3].s) ELSE CmdUnknown
      [] c = <<"keys">> -> CmdKeys(inner[1].s)
      [] c = <<"info">> -> CmdInfo
      [] c = <<"replconf">> ->
            IF ~IsBulkAt(inner, 1) THEN CmdUnknown
            ELSE IF to_lowercase(inner[2].s) = <<"listening-port">>
            THEN IF IsBulkAt(inner, 2)
                 THEN CmdReplConf(<<"listening-port", " ">> \o inner[3].s)
                 ELSE CmdUnknown
            ELSE IF to_lowercase(inner[2].s) = <<"capa">>
            THEN IF IsBulkAt(inner, 2) /\ to_lowercase(inner[3].s) = <<"psync2">>
                 THEN CmdReplConf(<<"capa psync2">>)
                 ELSE CmdUnknown
            ELSE CmdUnknown
      [] c = <<"psync">> -> CmdPSync
      [] OTHER -> CmdUnknown

\* parse_message: the command of the buffer, or CmdPanic when the decoder aborts.
parse_message(buffer) ==
    LET r == ParseTop(lines(buffer), 1, <<>>) IN
    IF r.ok = "panic" THEN CmdPanic ELSE from_resp(r.val)

(***************************************************************************)
(* The state.                                                              *)
(***************************************************************************)
VARIABLES
    store,      \* [node -> Database.storage]: key -> Item
    poisoned,   \* [node -> the store Mutex is poisoned]
    registry,   \* [node -> ReplicationManager.replicas]: handles, in Vec order
    pc,         \* [session -> where handle_client stands]
    command,    \* [session -> the `command` local of handle_client]
    response,   \* [session -> the reply that is about to be written]
    sweep,      \* [session -> the drained `replicas` local of propagate_command]
    c2s,        \* [connection -> every token its client end has written]
    s2c,        \* [connection -> every token its server end has written]
    rdS,        \* [connection -> tokens of c2s the server end has read]
    rdC,        \* tokens of s2c[Up] the secondary has read
    broken,     \* the connections the environment has broken
    nsent,      \* [connection -> writes its client has made]
    hs,         \* where the secondary's main stands
    exit_code,  \* the exit code of the process that has stopped, -1 while none has
    rbuf,       \* the BufReader buffer of send_psync
    rsize,      \* the `size` local of send_psync
    listening,  \* [node -> its TcpListener is bound]
    applied,    \* history: the SETs inserted into a store, in order
    inlog,      \* history: [session -> the commands it has parsed]
    how,        \* history: [session -> how its loop ended]
    regAt,      \* history: [session -> Len(applied) when it was registered]
    now,        \* the monotonic clock (Instant::now), in milliseconds
    got,        \* history: [session -> what the store held at each of its GETs]
    disk,       \* the Config of the primary and the file that it names
    codec       \* a frame on its way through serialize and the decoder

vars == <<store, poisoned, registry, pc, command, response, sweep, c2s, s2c, rdS,
          rdC, broken, nsent, hs, exit_code, rbuf, rsize, listening, applied,
          inlog, how, regAt, now, got, disk, codec>>

\* No --dir and no --dbfilename on the command line.
NoDisk == [configured |-> FALSE, present |-> FALSE, records |-> <<>>, bytes |-> <<>>]
\* No frame is on its way.
NoCodec == [stage |-> "idle"]

\* The sessions, connections and stores before anything has run.
InitSession ==
    /\ store = [n \in Nodes |-> <<>>]
    /\ poisoned = [n \in Nodes |-> FALSE]
    /\ registry = [n \in Nodes |-> <<>>]
    /\ pc = [s \in Sess |-> "none"]
    /\ command = [s \in Sess |-> CmdUnknown]
    /\ response = [s \in Sess |-> <<>>]
    /\ sweep = [s \in Sess |-> <<>>]
    /\ c2s = [c \in Conns |-> <<>>]
    /\ s2c = [c \in Conns |-> <<>>]
    /\ rdS = [c \in Conns |-> 0]
    /\ rdC = 0
    /\ broken = {}
    /\ nsent = [c \in Conns |-> 0]
    /\ hs = "start"
    /\ exit_code = -1
    /\ rbuf = <<>>
    /\ rsize = 0
    /\ applied = <<>>
    /\ inlog = [s \in Sess |-> <<>>]
    /\ how = [s \in Sess |-> "running"]
    /\ regAt = [s \in Sess |-> -1]
    /\ now = 0
    /\ got = [s \in Sess |-> <<>>]

\* The primary has come up with no snapshot configured.
Init ==
    /\ InitSession
    /\ listening = [n \in Nodes |-> n = Master]
    /\ disk = NoDisk
    /\ codec = NoCodec

Range(f) == {f[x] : x \in DOMAIN f}

(***************************************************************************)
(* Streams.                                                                *)
(***************************************************************************)
InStream(s) == IF s = Cons THEN s2c[Up] ELSE c2s[s]
InPos(s) == IF s = Cons THEN rdC ELSE rdS[s]
Unread(s) == SubSeq(InStream(s), InPos(s) + 1, Len(InStream(s)))

\* A handle is owned by a registry or by a sweep in progress.
Registered(h) ==
    \/ \E n \in Nodes : h \in Range(registry[n])
    \/ \E s \in Sess : h \in Range(sweep[s])
\* The session's task is over and its TcpStream has been dropped.
SessionGone(s) == pc[s] = "panicked" \/ (pc[s] = "done" /\ ~Registered(s))
\* The other end of the session's connection has been closed.
PeerGone(s) ==
    CASE s = Up -> exit_code # -1 \/ SessionGone(Cons)
      [] s = Cons -> SessionGone(Up)
      [] OTHER -> FALSE
\* Reads on the session's stream end and writes on it fail.
Down(s) == ConnOf(s) \in broken \/ PeerGone(s)

\* The streams after handle h has written bytes b.
WriteTo(h, b) ==
    /\ c2s' = IF h = Cons THEN [c2s EXCEPT ![Up] = @ \o b] ELSE c2s
    /\ s2c' = IF h = Cons THEN s2c ELSE [s2c EXCEPT ![h] = @ \o b]

(***************************************************************************)
(* The environment: clients of the primary.                                *)
(***************************************************************************)
\* A client's encoding of a command: an Array of BulkStrings.
RECURSIVE ReqArgs(_, _)
ReqArgs(args, i) ==
    IF i > Len(args) THEN <<>>
    ELSE <<"$", ToString(Len(args[i])), CRLF, args[i], CRLF>> \o ReqArgs(args, i + 1)
Req(args) == <<"*", ToString(Len(args)), CRLF>> \o ReqArgs(args, 1)

\* What a mock secondary sends, one message after each reply.
HandshakeScript ==
    << Req(<<"PING">>),
       Req(<<"REPLCONF", "listening-port", "6380">>),
       Req(<<"REPLCONF", "capa", "psync2">>),
       Req(<<"PSYNC", "?", "-1">>) >>

\* What a writer sends.
WriterCmds ==
    { Req(<<"SET", "foo", "a">>),
      Req(<<"SET", "foo", "b", "PX", "100">>) }

MockSend(c) ==
    /\ c \in Mocks
    /\ pc[c] = "read" /\ rdS[c] = Len(c2s[c])
    /\ c \notin broken
    /\ nsent[c] < Len(HandshakeScript)
    /\ c2s' = [c2s EXCEPT ![c] = @ \o HandshakeScript[nsent[c] + 1]]
    /\ nsent' = [nsent EXCEPT ![c] = @ + 1]
    /\ UNCHANGED <<disk, codec, now, got, store, poisoned, registry, pc, command, response, sweep, s2c,
                   rdS, rdC, broken, hs, exit_code, rbuf, rsize, listening,
                   applied, inlog, how, regAt>>

WriterSend(c, chunk) ==
    /\ c \in Writers
    /\ pc[c] # "none" /\ ~SessionGone(c)
    /\ c \notin broken
    /\ nsent[c] < MaxCmds
    /\ c2s' = [c2s EXCEPT ![c] = @ \o chunk]
    /\ nsent' = [nsent EXCEPT ![c] = @ + 1]
    /\ UNCHANGED <<disk, codec, now, got, store, poisoned, registry, pc, command, response, sweep, s2c,
                   rdS, rdC, broken, hs, exit_code, rbuf, rsize, listening,
                   applied, inlog, how, regAt>>

\* What a client of the command interpreter may write in one piece: well
\* formed commands, two commands at once, a command in two pieces, commands
\* of a wrong shape and frames that do not decode.
PingEcho == Req(<<"PING">>) \o Req(<<"ECHO", "hey">>)
SetHead == SubSeq(Req(<<"SET", "bar", "c">>), 1, 13)
SetTail == SubSeq(Req(<<"SET", "bar", "c">>), 14, 18)
BadLength == <<"*", "1", CRLF, "$", "9", CRLF, "PING", CRLF>>
BadBulkHeader == <<"*", "1", CRLF, "$", "x", CRLF, "PING", CRLF>>
BadPrefix == <<"?", "oops", CRLF>>
SmallMenu ==
    { Req(<<"SET", "foo", "a">>), Req(<<"SET", "foo", "b", "PX", "100">>),
      Req(<<"GET", "foo">>), Req(<<"PING">>) }
BigMenu ==
    SmallMenu \cup
    { Req(<<"GET", "bar">>), Req(<<"KEYS", "*">>), Req(<<"FLUSHALL">>),
      PingEcho, SetHead,
      Req(<<"SET", "foo">>), Req(<<"SET", "foo", "a", "EX", "10">>),
      Req(<<"SET", "foo", "a", "PX", "abc">>), Req(<<"CONFIG", "GET", "maxmemory">>),
      Req(<<"PING", "hey">>), Req(<<"PSYNC">>),
      Req(<<"ECHO", "hey">>), Req(<<"INFO", "replication">>),
      Req(<<"REPLCONF", "listening-port", "6380">>), Req(<<"CONFIG", "GET", "dir">>),
      BadLength, BadBulkHeader, BadPrefix }
EndsWith(s, e) == Len(s) >= Len(e) /\ SubSeq(s, Len(s) - Len(e) + 1, Len(s)) = e
\* What the clients of a primary with a snapshot file ask.
LoadMenu ==
    {Req(<<"GET", "foo">>), Req(<<"GET", "bar">>), Req(<<"CONFIG", "GET", "dir">>),
     Req(<<"CONFIG", "GET", "dbfilename">>)}

\* The first client writes anything and then goes on; the others write one
\* plain command.
Menu(c) ==
    IF disk.configured
    THEN IF c = <<"writer", 1>> THEN LoadMenu
         ELSE IF nsent[c] = 0 THEN {Req(<<"GET", "foo">>)} ELSE {}
    ELSE IF c = <<"writer", 1>>
    THEN IF EndsWith(c2s[c], SetHead) THEN {SetTail}
         ELSE IF nsent[c] = 0 THEN BigMenu ELSE SmallMenu
    ELSE IF nsent[c] = 0 THEN SmallMenu ELSE {}

ClientSend(c, chunk) ==
    /\ c \in Writers
    /\ pc[c] # "none" /\ ~SessionGone(c)
    /\ c \notin broken
    /\ nsent[c] < MaxChunks
    /\ chunk \in Menu(c)
    /\ c2s' = [c2s EXCEPT ![c] = @ \o chunk]
    /\ nsent' = [nsent EXCEPT ![c] = @ + 1]
    /\ UNCHANGED <<disk, codec, now, got, store, poisoned, registry, pc, command, response, sweep, s2c,
                   rdS, rdC, broken, hs, exit_code, rbuf, rsize, listening,
                   applied, inlog, how, regAt>>

\* The peer of a connection goes away or the network breaks.
BreakConn(c) ==
    /\ c \in PClients
    /\ pc[c] # "none" /\ ~SessionGone(c)
    /\ c \notin broken
    /\ Cardinality(broken) < MaxBreaks
    /\ broken' = broken \cup {c}
    /\ UNCHANGED <<disk, codec, now, got, store, poisoned, registry, pc, command, response, sweep, c2s,
                   s2c, rdS, rdC, nsent, hs, exit_code, rbuf, rsize, listening,
                   applied, inlog, how, regAt>>

(***************************************************************************)
(* The connection session: handle_client (main.rs).                        *)
(***************************************************************************)
\* Item::new(value, expires) at clock reading t.
Item(value, expires, t) == [value |-> value, expires |-> expires, created |-> t]
\* Item::is_expired at clock reading t: created.elapsed() >= duration.
is_expired(item, t) == item.expires # NoTtl /\ t - item.created >= item.expires

\* Config.dir and Config.dbfilename: None unless both options were given.
NoneStr == <<"!none">>
config_dir == IF disk.configured THEN <<"/tmp/redis-files">> ELSE NoneStr
config_dbfilename == IF disk.configured THEN <<"dump.rdb">> ELSE NoneStr

OkReply == serialize(SimpleString(<<"OK">>))

\* What one arm of the match on the command leaves behind: the next place of
\* the session, its reply, the node's storage, and whether the arm aborted
\* while it held the store lock.
ArmResult(p, r, st, pois) == [pc |-> p, resp |-> r, st |-> st, poison |-> pois]
\* An arm whose reply is `bytes`; `locked` says the store lock is held while
\* the reply is serialized.
Replying(bytes, st, locked) ==
    IF bytes = PANIC THEN ArmResult("panicked", <<>>, st, locked)
    ELSE ArmResult("reply", bytes, st, FALSE)

info_response(n) ==
    <<IF n = Master THEN "role:master" ELSE "role:slave", LF,
      "master_replid:", repl_id, CRLF, "master_repl_offset:0">>

ConfigGetArm(n, key, st) ==
    IF key = <<"dir">> \/ key = <<"dbfilename">>
    THEN IF poisoned[n] THEN ArmResult("panicked", <<>>, st, FALSE)
         ELSE LET val == IF key = <<"dir">> THEN config_dir ELSE config_dbfilename IN
              IF val = NoneStr THEN Replying(serialize(NullBulkString), st, TRUE)
              ELSE Replying(serialize(Array(<<BulkString(<<"dir">>), BulkString(val)>>)),
                            st, TRUE)
    ELSE ArmResult("panicked", <<>>, st, FALSE)     \* unimplemented!()

\* db.storage.keys() as BulkStrings, in some order of the HashMap
RECURSIVE SeqOfSet(_)
SeqOfSet(S) ==
    IF S = {} THEN <<>> ELSE LET x == CHOOSE y \in S : TRUE IN <<x>> \o SeqOfSet(S \ {x})
db_keys(st) == LET ks == SeqOfSet(DOMAIN st) IN [i \in 1..Len(ks) |-> BulkString(ks[i])]

Arm(n, cmd, t) ==
    LET st == store[n]
        lockFails == ArmResult("panicked", <<>>, st, FALSE)
    IN
    CASE cmd = CmdPanic -> lockFails      \* the read or the decoder aborted
      [] cmd.name = "Ping" -> Replying(serialize(SimpleString(<<"PONG">>)), st, FALSE)
      [] cmd.name = "Echo" -> Replying(serialize(BulkString(cmd.arg)), st, FALSE)
      [] cmd.name = "Set" ->
            IF poisoned[n] THEN lockFails
            ELSE ArmResult(IF n = Master THEN "propagate" ELSE "reply", OkReply,
                           (cmd.key :> Item(cmd.value, cmd.ttl, t)) @@ st, FALSE)
      [] cmd.name = "Get" ->
            IF poisoned[n] THEN lockFails
            ELSE IF cmd.key \in DOMAIN st /\ ~is_expired(st[cmd.key], t)
                 THEN Replying(serialize(SimpleString(st[cmd.key].value)), st, TRUE)
                 ELSE Replying(serialize(NullBulkString), st, TRUE)
      [] cmd.name = "ConfigGet" -> ConfigGetArm(n, cmd.key, st)
      [] cmd.name = "Keys" ->
            IF poisoned[n] THEN lockFails
            ELSE Replying(serialize(Array(db_keys(st))), st, TRUE)
      [] cmd.name = "Info" ->
            IF poisoned[n] THEN lockFails
            ELSE Replying(serialize(BulkString(info_response(n))), st, TRUE)
      [] cmd.name = "ReplConf" -> Replying(OkReply, st, FALSE)
      [] cmd.name = "PSync" -> ArmResult("psync1", <<>>, st, FALSE)
      [] OTHER ->
            Replying(serialize(SimpleString(<<"-ERR Unknown command">>)), st, FALSE)

\* How long the MutexGuard an arm takes on the store lives: to the end of
\* the statement that takes it (Set), of the match it is the scrutinee of
\* (Get), or of the arm that binds it with let (ConfigGet, Keys, Info).
\* The guard as if it were bound for the whole turn of the loop.
GuardScope_iteration(cmd) ==
    IF cmd.name \in {"Set", "Get", "ConfigGet", "Keys", "Info"} THEN "iteration" ELSE "none"
GuardScope(cmd) ==
    CASE cmd.name = "Set" -> "statement"
      [] cmd.name = "Get" -> "match"
      [] cmd.name = "ConfigGet" ->
            IF cmd.key = <<"dir">> \/ cmd.key = <<"dbfilename">> THEN "arm" ELSE "none"
      [] cmd.name \in {"Keys", "Info"} -> "arm"
      [] OTHER -> "none"
\* The places of a session, each an await on a socket write or leading to
\* one, that lie within a scope: propagate_command and the writes of the
\* PSync arm are inside their arms, the write of the reply follows the match.
AwaitsWithin(scope) ==
    CASE scope = "iteration" ->
            {"propagate", "sweep", "psync1", "psync2", "psync3", "reply"}
      [] scope = "arm" -> {"propagate", "sweep", "psync1", "psync2", "psync3"}
      [] OTHER -> {}
\* The session stands at an await with a guard of the store alive.
HoldsStoreLock(s) == pc[s] \in AwaitsWithin(GuardScope(command[s]))

\* String::from_utf8(filtered_buffer).expect(..): the snapshot bytes are not UTF-8.
DecodeBuffer(data) ==
    IF RDB \in Range(data) THEN CmdPanic ELSE parse_message(data)

\* Time passes; it is watched once an entry with a duration exists or a
\* snapshot file has been read.
Tick ==
    /\ now < MaxTicks * 50
    /\ IF disk.present THEN listening[Master]
       ELSE \E n \in Nodes : \E k \in DOMAIN store[n] : store[n][k].expires # NoTtl
    /\ now' = now + 50
    /\ UNCHANGED <<disk, codec, got, store, poisoned, registry, pc, command, response, sweep, c2s,
                   s2c, rdS, rdC, broken, nsent, hs, exit_code, rbuf, rsize, listening,
                   applied, inlog, how, regAt>>

\* One turn of the loop up to its next await: stream.read, parse_message and
\* the arm of the command.
ReadCmd(s) ==
    /\ pc[s] = "read"
    /\ IF Unread(s) # <<>>
       THEN \E cmd \in {DecodeBuffer(Unread(s))} :
            \E a \in {Arm(NodeOf(s), cmd, now)} :
            LET n == NodeOf(s) IN
            /\ IF s = Cons
               THEN rdC' = Len(s2c[Up]) /\ rdS' = rdS
               ELSE rdS' = [rdS EXCEPT ![s] = Len(c2s[s])] /\ rdC' = rdC
            /\ inlog' = [inlog EXCEPT ![s] = Append(@, cmd)]
            /\ pc' = [pc EXCEPT ![s] = a.pc]
            /\ command' = IF cmd = CmdPanic THEN command
                          ELSE [command EXCEPT ![s] = cmd]
            /\ response' = [response EXCEPT ![s] = a.resp]
            /\ store' = [store EXCEPT ![n] = a.st]
            /\ poisoned' = [poisoned EXCEPT ![n] = @ \/ a.poison]
            /\ applied' =
                 IF cmd.name = "Set" /\ a.pc # "panicked"
                 THEN Append(applied,
                             [node |-> n, sess |-> s, key |-> cmd.key,
                              value |-> cmd.value, reg |-> Range(registry[n]),
                              down |-> {r \in Range(registry[n]) : Down(r)}])
                 ELSE applied
            /\ got' =
                 IF cmd.name = "Get" /\ a.pc # "panicked"
                 THEN [got EXCEPT ![s] =
                          Append(@, [key |-> cmd.key, at |-> now,
                                     held |-> {store[n][k] : k \in {cmd.key} \cap DOMAIN store[n]}])]
                 ELSE got
            /\ how' = how
       ELSE /\ Down(s)
            /\ pc' = [pc EXCEPT ![s] = "exit"]
            /\ how' = [how EXCEPT ![s] = "eof"]
            /\ UNCHANGED <<command, response, store, poisoned, applied, inlog, rdS, rdC,
                           got>>
    /\ UNCHANGED <<disk, codec, now, registry, sweep, c2s, s2c, broken, nsent, hs, exit_code, rbuf,
                   rsize, listening, regAt>>

\* stream.write_all(response): on an error the loop is left.
Reply(s) ==
    /\ pc[s] = "reply"
    /\ IF Down(s)
       THEN /\ pc' = [pc EXCEPT ![s] = "exit"]
            /\ how' = [how EXCEPT ![s] = "write_error"]
            /\ UNCHANGED <<c2s, s2c>>
       ELSE /\ WriteTo(s, response[s])
            /\ pc' = [pc EXCEPT ![s] = "read"]
            /\ how' = how
    /\ UNCHANGED <<disk, codec, now, got, store, poisoned, registry, command, response, sweep, rdS, rdC,
                   broken, nsent, hs, exit_code, rbuf, rsize, listening, applied,
                   inlog, regAt>>

\* The three writes of the PSync arm.
full_resync == serialize(SimpleString(<<"FULLRESYNC", " ", repl_id, " ", "0">>))
rdb_header == <<"$", ToString(empty_file_len), CRLF>>
\* The snapshot followed by a line end.
rdb_payload_terminated == <<RDB, CRLF>>
rdb_payload == <<RDB>>
\* The snapshot bytes written ahead of their header.
PSyncBytes_swapped(stage) ==
    CASE stage = "psync1" -> full_resync
      [] stage = "psync2" -> rdb_payload
      [] stage = "psync3" -> rdb_header
PSyncBytes(stage) ==
    CASE stage = "psync1" -> full_resync
      [] stage = "psync2" -> rdb_header
      [] stage = "psync3" -> rdb_payload
PSyncNext(stage) ==
    CASE stage = "psync1" -> "psync2"
      [] stage = "psync2" -> "psync3"
      [] stage = "psync3" -> "exit"

\* Each write is unwrapped: an error aborts the task.
PSyncWrite(s) ==
    /\ pc[s] \in {"psync1", "psync2", "psync3"}
    /\ IF Down(s)
       THEN /\ pc' = [pc EXCEPT ![s] = "panicked"]
            /\ UNCHANGED <<c2s, s2c, how>>
       ELSE /\ WriteTo(s, PSyncBytes(pc[s]))
            /\ pc' = [pc EXCEPT ![s] = PSyncNext(pc[s])]
            /\ how' = IF pc[s] = "psync3" THEN [how EXCEPT ![s] = "psync"] ELSE how
    /\ UNCHANGED <<disk, codec, now, got, store, poisoned, registry, command, response, sweep, rdS, rdC,
                   broken, nsent, hs, exit_code, rbuf, rsize, listening, applied,
                   inlog, regAt>>

\* if command == Command::PSync { add_replica(stream) }
\* Every ended session is registered.
ShouldRegister_always(cmd) == TRUE
ShouldRegister(cmd) == cmd = CmdPSync
\* The stream is pushed twice.
add_replica_twice(reg, h) == Append(Append(reg, h), h)
add_replica(reg, h) == Append(reg, h)

\* After the loop.
Finish(s) ==
    /\ pc[s] = "exit"
    /\ pc' = [pc EXCEPT ![s] = "done"]
    /\ IF ShouldRegister(command[s])
       THEN /\ registry' = [registry EXCEPT ![NodeOf(s)] = add_replica(@, s)]
            /\ regAt' = [regAt EXCEPT ![s] = Len(applied)]
       ELSE UNCHANGED <<registry, regAt>>
    /\ UNCHANGED <<disk, codec, now, got, store, poisoned, command, response, sweep, c2s, s2c, rdS, rdC,
                   broken, nsent, hs, exit_code, rbuf, rsize, listening, applied,
                   inlog, how>>

\* The frame the Set arm hands to propagate_command.
set_command(cmd) ==
    Array(<<BulkString(<<"SET">>), BulkString(cmd.key), BulkString(cmd.value)>>)

\* ReplicationManager::propagate_command, one step at a time: the frame is
\* serialized and the registry drained; then each drained handle is written
\* to and pushed back, whether or not the write failed.
PropagateStep(s) ==
    /\ pc[s] \in {"propagate", "sweep"}
    /\ LET n == NodeOf(s)
           serialized_command == serialize(set_command(command[s]))
       IN
       IF pc[s] = "propagate"
       THEN IF serialized_command = PANIC
            THEN /\ pc' = [pc EXCEPT ![s] = "panicked"]
                 /\ UNCHANGED <<sweep, registry, c2s, s2c>>
            ELSE /\ sweep' = [sweep EXCEPT ![s] = registry[n]]
                 /\ registry' = [registry EXCEPT ![n] = <<>>]
                 /\ pc' = [pc EXCEPT ![s] = "sweep"]
                 /\ UNCHANGED <<c2s, s2c>>
       ELSE IF sweep[s] = <<>>
            THEN /\ pc' = [pc EXCEPT ![s] = "reply"]
                 /\ UNCHANGED <<sweep, registry, c2s, s2c>>
            ELSE LET replica == Head(sweep[s]) IN
                 /\ IF Down(replica) THEN UNCHANGED <<c2s, s2c>>
                    ELSE WriteTo(replica, serialized_command)
                 /\ registry' = [registry EXCEPT ![n] = Append(@, replica)]
                 /\ sweep' = [sweep EXCEPT ![s] = Tail(@)]
                 /\ pc' = pc
    /\ UNCHANGED <<disk, codec, now, got, store, poisoned, command, response, rdS, rdC, broken, nsent, hs,
                   exit_code, rbuf, rsize, listening, applied, inlog, how, regAt>>

\* The accept loop of main: a session is spawned for the connection.
Connected(c) == IF c = Up THEN hs \notin {"start", "connect_failed"} ELSE TRUE
Accept(c) ==
    /\ c \in Conns
    /\ pc[c] = "none"
    /\ listening[NodeOf(c)]
    /\ Connected(c)
    /\ pc' = [pc EXCEPT ![c] = "read"]
    /\ UNCHANGED <<disk, codec, now, got, store, poisoned, registry, command, response, sweep, c2s, s2c,
                   rdS, rdC, broken, nsent, hs, exit_code, rbuf, rsize, listening,
                   applied, inlog, how, regAt>>

(***************************************************************************)
(* The snapshot loader (rdb.rs) and the start of the primary (main.rs).    *)
(***************************************************************************)
file_buffer_len == 1024
\* SystemTime::now() in milliseconds since the epoch at clock reading t.
WallClock(t) == 5000 + t

\* file_buffer[i]: what read() left there, zero where the file has ended.
ByteAt(bytes, i) == IF i <= Len(bytes) THEN bytes[i] ELSE 0
\* The iterator is exhausted at position i.
Exhausted(i) == i > file_buffer_len
\* Up to n bytes from position i on, as the `if let Some .. else break` loops
\* and take(n) collect them.
Collect(bytes, i, n) ==
    [j \in 1..(IF i + n - 1 <= file_buffer_len THEN n
               ELSE IF i > file_buffer_len THEN 0 ELSE file_buffer_len - i + 1)
        |-> ByteAt(bytes, i + j - 1)]

\* read_u64::<LittleEndian>
RECURSIVE LittleEndian(_, _)
LittleEndian(b, i) ==
    IF i > Len(b) THEN 0
    ELSE b[i] + 256 * LittleEndian(b, i + 1)

\* String::from_utf8_lossy on the bytes the files here hold.
CharOf(b) ==
    CASE b = 97 -> "a" [] b = 98 -> "b" [] b = 99 -> "c" [] b = 102 -> "f"
      [] b = 111 -> "o" [] b = 114 -> "r" [] b = 0 -> "\\0" [] b = 1 -> "\\1"
      [] b >= 128 -> "\\uFFFD"
      [] OTHER -> "\\x"
RECURSIVE Chars(_, _)
Chars(b, i) == IF i > Len(b) THEN "" ELSE CharOf(b[i]) \o Chars(b, i + 1)
from_utf8_lossy(b) == IF b = <<>> THEN <<>> ELSE <<Chars(b, 1)>>

\* is_expired of rdb.rs: Some(e) < Some(current_timestamp_ms).
rdb_is_expired(expiry, t) == expiry < WallClock(t)

NoExpiry == -1
LoadPanic == [panicked |-> TRUE]
Loaded(i, st) == [panicked |-> FALSE, i |-> i, st |-> st]

\* parse_hash_table: keys_size records from position i on, into st.
RECURSIVE parse_hash_table(_, _, _, _, _)
parse_hash_table(bytes, i, keys_size, st, t) ==
    IF keys_size = 0 THEN Loaded(i, st)
    ELSE IF Exhausted(i) THEN LoadPanic
    ELSE LET value_type == ByteAt(bytes, i)
             timed == value_type = 252
             expiry_bytes == Collect(bytes, i + 1, 8)
             expiry == IF timed THEN LittleEndian(expiry_bytes, 1) ELSE NoExpiry
             k == IF timed THEN i + 10 ELSE i + 1
             key_len == ByteAt(bytes, k)
             key_chars == Collect(bytes, k + 1, key_len)
             v == k + 1 + key_len
             value_len == ByteAt(bytes, v)
             value_chars == Collect(bytes, v + 1, value_len)
             new_item == Item(from_utf8_lossy(value_chars), NoTtl, t)
             key_string == from_utf8_lossy(key_chars)
         IN  IF timed /\ Len(expiry_bytes) < 8 THEN LoadPanic
             ELSE IF Exhausted(k) \/ Exhausted(v) THEN LoadPanic
             ELSE parse_hash_table(bytes, v + 1 + value_len, keys_size - 1,
                     IF expiry # NoExpiry /\ rdb_is_expired(expiry, t) THEN st
                     ELSE (key_string :> new_item) @@ st,
                     t)

\* The `while let Some(&control)` loop: every 0xFB starts a table, every
\* other byte is passed over.  The zeros after the end of the file start
\* none.
RECURSIVE ScanControls(_, _, _, _)
ScanControls(bytes, i, st, t) ==
    LET controls == {j \in i..Len(bytes) : ~Exhausted(j) /\ bytes[j] = 251} IN
    IF controls = {} THEN Loaded(Len(bytes) + 1, st)
    ELSE LET c == CHOOSE j \in controls : \A m \in controls : j <= m
             r == parse_hash_table(bytes, c + 3, ByteAt(bytes, c + 1), st, t)
         IN  IF Exhausted(c + 1) \/ Exhausted(c + 2) THEN LoadPanic
             ELSE IF r.panicked THEN LoadPanic
             ELSE ScanControls(bytes, r.i, r.st, t)

load_rdb_to_database(d, st, t) ==
    IF config_dir = NoneStr \/ config_dbfilename = NoneStr THEN Loaded(0, st)
    ELSE IF ~d.present THEN Loaded(0, st)
    ELSE ScanControls(d.bytes, 1, st, t)

\* main from Database::new to TcpListener::bind.
Startup ==
    /\ ~listening[Master] /\ exit_code = -1
    /\ LET r == load_rdb_to_database(disk, <<>>, now)
       IN  IF r.panicked
           THEN /\ exit_code' = 101
                /\ UNCHANGED <<store, listening>>
           ELSE /\ store' = [store EXCEPT ![Master] = r.st]
                /\ listening' = [listening EXCEPT ![Master] = TRUE]
                /\ UNCHANGED exit_code
    /\ UNCHANGED <<disk, codec, now, got, poisoned, registry, pc, command, response,
                   sweep, c2s, s2c, rdS, rdC, broken, nsent, hs, rbuf, rsize,
                   applied, inlog, how, regAt>>

(***************************************************************************)
(* The secondary: main and handle_replica (main.rs, replication.rs).       *)
(***************************************************************************)
port_string == <<"6380">>       \* config.port.to_string()

\* The message each send_* function builds.
HsMessage(stage) ==
    CASE stage = "send_ping" -> Array(<<BulkString(<<"PING">>)>>)
      [] stage = "send_port" ->
            Array(<<BulkString(<<"REPLCONF">>), BulkString(<<"listening-port">>),
                    BulkString(port_string)>>)
      [] stage = "send_capa" ->
            Array(<<BulkString(<<"REPLCONF">>), BulkString(<<"capa">>),
                    BulkString(<<"psync2">>)>>)
      [] stage = "send_psync" ->
            Array(<<BulkString(<<"PSYNC">>), BulkString(<<"?">>), BulkString(<<"-1">>)>>)
\* What the reply read after it must start with.
HsExpect(stage) ==
    CASE stage = "wait_pong" -> <<"+", "PONG">>
      [] stage = "wait_port" -> <<"+", "OK">>
      [] stage = "wait_capa" -> <<"+", "OK">>
      [] stage = "wait_fullresync" -> <<"+", "FULLRESYNC">>
HsNext(stage) ==
    CASE stage = "send_ping" -> "wait_pong" [] stage = "wait_pong" -> "send_port"
      [] stage = "send_port" -> "wait_port" [] stage = "wait_port" -> "send_capa"
      [] stage = "send_capa" -> "wait_capa" [] stage = "wait_capa" -> "send_psync"
      [] stage = "send_psync" -> "wait_fullresync"
      [] stage = "wait_fullresync" -> "wait_size"
      [] stage = "wait_size" -> "wait_rdb" [] stage = "wait_rdb" -> "spawn"
      [] stage = "spawn" -> "bind" [] stage = "bind" -> "ok"

UpUnread == SubSeq(s2c[Up], rdC + 1, Len(s2c[Up]))
UpDown == Up \in broken \/ SessionGone(Up)

\* BufReader::read_line: the buffered bytes up to and with the first line
\* terminator, and what stays buffered.
IsEol(t) == t = CRLF \/ t = LF
FirstEol(buf) ==
    IF \E i \in 1..Len(buf) : IsEol(buf[i])
    THEN CHOOSE i \in 1..Len(buf) : IsEol(buf[i]) /\ \A j \in 1..(i - 1) : ~IsEol(buf[j])
    ELSE Len(buf)
\* str::trim_start_matches('$') and str::trim
RECURSIVE trim_start_dollar(_)
trim_start_dollar(s) ==
    IF s # <<>> /\ Head(s) = "$" THEN trim_start_dollar(Tail(s)) ELSE s
IsSpace(t) == IsEol(t) \/ t = " "
RECURSIVE trim(_)
trim(s) ==
    IF s # <<>> /\ IsSpace(Head(s)) THEN trim(Tail(s))
    ELSE IF s # <<>> /\ IsSpace(s[Len(s)]) THEN trim(SubSeq(s, 1, Len(s) - 1))
    ELSE s
\* read_exact(size): the shortest prefix that holds size bytes
TakeBytes(buf, size) ==
    CHOOSE k \in 0..Len(buf) :
        /\ ByteLen(SubSeq(buf, 1, k)) >= size
        /\ \A j \in 0..(k - 1) : ByteLen(SubSeq(buf, 1, j)) < size

HsFail == hs' = "failed" /\ exit_code' = 1       \* Err(e): std::process::exit(1)
HsPanic == hs' = "panicked" /\ exit_code' = 101  \* a panic on the main task

\* One step of the secondary's main: handle_replica with its send_* calls,
\* then the bind of the listener.
SecondaryStep ==
    /\ hs \notin {"ok", "failed", "connect_failed", "panicked"}
    /\ CASE hs = "start" ->
              \* TcpStream::connect(&host).await?
              /\ \E reachable \in BOOLEAN :
                    IF reachable THEN hs' = "send_ping" /\ exit_code' = exit_code
                    ELSE hs' = "connect_failed" /\ exit_code' = 1
              /\ UNCHANGED <<c2s, rdC, rbuf, rsize, pc, listening>>
         [] hs \in {"send_ping", "send_port", "send_capa", "send_psync"} ->
              LET bytes == serialize(HsMessage(hs)) IN
              /\ IF bytes = PANIC THEN HsPanic /\ c2s' = c2s
                 ELSE IF UpDown THEN HsFail /\ c2s' = c2s
                 ELSE /\ c2s' = [c2s EXCEPT ![Up] = @ \o bytes]
                      /\ hs' = HsNext(hs) /\ exit_code' = exit_code
              /\ UNCHANGED <<rdC, rbuf, rsize, pc, listening>>
         [] hs \in {"wait_pong", "wait_port", "wait_capa"} ->
              \* stream.read(&mut buff): what has arrived, or nothing at EOF
              /\ UpUnread # <<>> \/ UpDown
              /\ rdC' = Len(s2c[Up])
              /\ IF starts_with(UpUnread, HsExpect(hs))
                 THEN hs' = HsNext(hs) /\ exit_code' = exit_code
                 ELSE HsFail
              /\ UNCHANGED <<c2s, rbuf, rsize, pc, listening>>
         [] hs \in {"wait_fullresync", "wait_size"} ->
              LET avail == IF rbuf # <<>> THEN rbuf ELSE UpUnread
                  k == FirstEol(avail)
                  line == SubSeq(avail, 1, k)
                  size == trim(trim_start_dollar(line))
              IN
              /\ avail # <<>> \/ UpDown
              /\ rdC' = IF rbuf # <<>> THEN rdC ELSE Len(s2c[Up])
              /\ rbuf' = SubSeq(avail, k + 1, Len(avail))
              /\ IF hs = "wait_fullresync"
                 THEN /\ IF starts_with(line, HsExpect(hs))
                         THEN hs' = HsNext(hs) /\ exit_code' = exit_code
                         ELSE HsFail
                      /\ rsize' = rsize
                 ELSE IF ParsesAsNum(size)
                      THEN /\ rsize' = NumOf(size[1])
                           /\ hs' = HsNext(hs) /\ exit_code' = exit_code
                      ELSE HsFail /\ rsize' = rsize
              /\ UNCHANGED <<c2s, pc, listening>>
         [] hs = "wait_rdb" ->
              LET avail == rbuf \o UpUnread IN
              /\ ByteLen(avail) >= rsize \/ UpDown
              /\ rdC' = Len(s2c[Up])
              /\ IF ByteLen(avail) >= rsize
                 THEN /\ rbuf' = SubSeq(avail, TakeBytes(avail, rsize) + 1, Len(avail))
                      /\ hs' = HsNext(hs) /\ exit_code' = exit_code
                 ELSE HsFail /\ rbuf' = <<>>
              /\ UNCHANGED <<c2s, rsize, pc, listening>>
         [] hs = "spawn" ->
              \* the BufReader is dropped; handle_client is spawned on the stream
              /\ rbuf' = <<>>
              /\ pc' = [pc EXCEPT ![Cons] = "read"]
              /\ hs' = HsNext(hs)
              /\ UNCHANGED <<c2s, rdC, rsize, exit_code, listening>>
         [] hs = "bind" ->
              \* TcpListener::bind
              /\ listening' = [listening EXCEPT ![Slave] = TRUE]
              /\ hs' = HsNext(hs)
              /\ UNCHANGED <<c2s, rdC, rbuf, rsize, pc, exit_code>>
    /\ UNCHANGED <<disk, codec, now, got, store, poisoned, registry, command, response, sweep, s2c, rdS,
                   broken, nsent, applied, inlog, how, regAt>>

(***************************************************************************)
(* The specification.                                                      *)
(***************************************************************************)
Next ==
    \/ \E c \in Conns : Accept(c)
    \/ \E c \in Mocks : MockSend(c)
    \/ \E c \in Writers : \E chunk \in WriterCmds : WriterSend(c, chunk)
    \/ \E c \in PClients : BreakConn(c)
    \/ \E s \in Sess : ReadCmd(s)
    \/ \E s \in Sess : Reply(s)
    \/ \E s \in Sess : PSyncWrite(s)
    \/ \E s \in Sess : Finish(s)
    \/ \E s \in Sess : PropagateStep(s)
    \/ SecondaryStep

Spec == Init /\ [][Next]_vars

\* The primary alone with the clients of its command interpreter.
NextCmd ==
    \/ \E c \in Writers : Accept(c)
    \/ \E c \in Writers : \E chunk \in BigMenu \cup {SetTail} : ClientSend(c, chunk)
    \/ \E s \in Writers : ReadCmd(s)
    \/ \E s \in Writers : Reply(s)
    \/ \E s \in Writers : PSyncWrite(s)
    \/ \E s \in Writers : Finish(s)
    \/ \E s \in Writers : PropagateStep(s)
    \/ Tick

SpecCmd == Init /\ [][NextCmd]_vars

(***************************************************************************)
(* The primary started on a snapshot file, and its clients.                *)
(***************************************************************************)
\* A number as `width` little-endian bytes.
RECURSIVE BytesLE(_, _)
BytesLE(n, width) ==
    IF width = 0 THEN <<>> ELSE <<n % 256>> \o BytesLE(n \div 256, width - 1)

KeyFoo == <<102, 111, 111>>
KeyBar == <<98, 97, 114>>
\* One record of the table: kind "plain" has no expiry, "FC" has one in
\* milliseconds and "FD" one in seconds, both since the epoch.
Record(kind, at, key, value) == [kind |-> kind, at |-> at, key |-> key, value |-> value]
EncodeRecord(r) ==
    (CASE r.kind = "FC" -> <<252>> \o BytesLE(r.at, 8)
       [] r.kind = "FD" -> <<253>> \o BytesLE(r.at, 4)
       [] OTHER -> <<>>)
    \o <<0, Len(r.key)>> \o r.key \o <<Len(r.value)>> \o r.value
RECURSIVE EncodeRecords(_, _)
EncodeRecords(rs, i) ==
    IF i > Len(rs) THEN <<>> ELSE EncodeRecord(rs[i]) \o EncodeRecords(rs, i + 1)
\* REDIS0011, database 0, the table, end of file and a checksum.
EncodeFile(rs) ==
    <<82, 69, 68, 73, 83, 48, 48, 49, 49, 254, 0>>
    \o <<251, Len(rs), Cardinality({i \in 1..Len(rs) : rs[i].kind # "plain"})>>
    \o EncodeRecords(rs, 1) \o <<255, 18, 52, 86, 120, 154, 188, 222, 240>>

FileOf(rs) == [configured |-> TRUE, present |-> TRUE, records |-> rs,
               bytes |-> EncodeFile(rs)]
PlainFoo == Record("plain", 0, KeyFoo, <<97>>)
PastFoo == Record("FC", WallClock(0) - 100, KeyFoo, <<97>>)
SoonFoo == Record("FC", WallClock(0) + 50, KeyFoo, <<97>>)
SoonBar == Record("FC", WallClock(0) + 50, KeyBar, <<99>>)
PastSecondsFoo == Record("FD", 1, KeyFoo, <<97>>)
SoonSecondsFoo == Record("FD", 8, KeyFoo, <<97>>)
Disks ==
    {[configured |-> TRUE, present |-> FALSE, records |-> <<>>, bytes |-> <<>>]}
    \cup {FileOf(rs) : rs \in {<<>>, <<PlainFoo>>, <<PastFoo>>, <<SoonFoo>>,
                               <<PastSecondsFoo>>, <<SoonSecondsFoo>>,
                               <<PlainFoo, SoonBar>>,
                               <<PastFoo, SoonBar>>}}

\* The primary has its Config and has not yet built its Database.
InitLoad ==
    /\ InitSession
    /\ listening = [n \in Nodes |-> FALSE]
    /\ disk \in Disks
    /\ codec = NoCodec

NextLoad ==
    \/ Startup
    \/ \E c \in Writers : Accept(c)
    \/ \E c \in Writers : \E chunk \in LoadMenu : ClientSend(c, chunk)
    \/ \E s \in Writers : ReadCmd(s)
    \/ \E s \in Writers : Reply(s)
    \/ Tick

SpecLoad == InitLoad /\ [][NextLoad]_vars

(***************************************************************************)
(* The codec alone: a frame through serialize and back through the         *)
(* decoder of parse_message (resp.rs).                                     *)
(***************************************************************************)
MaxElems == 2
Atoms ==
    {SimpleString(<<"OK">>), SimpleString(<<>>), BulkString(<<"foo">>),
     BulkString(<<"bar">>), BulkString(<<>>), BulkString(<<EAcute>>), NullBulkString}
Frames ==
    Atoms \cup {Array(v) : v \in UNION {[1..n -> Atoms] : n \in 0..MaxElems}}

InitCodec ==
    /\ InitSession
    /\ listening = [n \in Nodes |-> FALSE]
    /\ disk = NoDisk
    /\ codec \in {[stage |-> "frame", frame |-> f] : f \in Frames}

\* RespType::serialize on the frame.
SerializeFrame ==
    /\ codec.stage = "frame"
    /\ LET bytes == serialize(codec.frame)
       IN  codec' = IF bytes = PANIC
                    THEN [stage |-> "serialize_panicked", frame |-> codec.frame]
                    ELSE [stage |-> "wire", frame |-> codec.frame, wire |-> bytes]
    /\ UNCHANGED <<store, poisoned, registry, pc, command, response, sweep, c2s, s2c,
                   rdS, rdC, broken, nsent, hs, exit_code, rbuf, rsize, listening,
                   applied, inlog, how, regAt, now, got, disk>>

\* The `resp` vector that parse_message builds from the bytes.
DecodeWire ==
    /\ codec.stage = "wire"
    /\ LET r == ParseTop(lines(codec.wire), 1, <<>>)
       IN  codec' = IF r.ok = "panic"
                    THEN [stage |-> "decode_panicked", frame |-> codec.frame,
                          wire |-> codec.wire]
                    ELSE [stage |-> "decoded", frame |-> codec.frame,
                          wire |-> codec.wire, back |-> r.val]
    /\ UNCHANGED <<store, poisoned, registry, pc, command, response, sweep, c2s, s2c,
                   rdS, rdC, broken, nsent, hs, exit_code, rbuf, rsize, listening,
                   applied, inlog, how, regAt, now, got, disk>>

NextCodec ==
    \/ SerializeFrame
    \/ DecodeWire

SpecCodec == InitCodec /\ [][NextCodec]_vars

(***************************************************************************)
(* What the claims speak of.                                               *)
(***************************************************************************)
PrimarySess == {Up} \cup PClients
\* The session is inside propagate_command.
Propagating(s) == pc[s] \in {"propagate", "sweep"}

RECURSIVE Flat(_, _)
Flat(ss, k) == IF k = 0 THEN <<>> ELSE Flat(ss, k - 1) \o ss[k]
IsPrefix(a, b) == Len(a) <= Len(b) /\ SubSeq(b, 1, Len(a)) = a
Occurs(f, stream) ==
    \E i \in 1..(Len(stream) - Len(f) + 1) : SubSeq(stream, i, i + Len(f) - 1) = f
Count(x, seq) == Cardinality({i \in DOMAIN seq : seq[i] = x})

\* The wire form of Array[BulkString "SET", BulkString k, BulkString v].
WireBulk(s) == <<"$", ToString(ByteLen(s)), CRLF>> \o s \o <<CRLF>>
WireSet(k, v) == <<"*", "3", CRLF>> \o WireBulk(<<"SET">>) \o WireBulk(k) \o WireBulk(v)
WireOk == <<"+", "OK", CRLF>>

\* What follows the snapshot bytes on a stream, and what precedes them.
SnapshotAt(stream) ==
    IF RDB \in Range(stream) THEN CHOOSE i \in DOMAIN stream :
                                      stream[i] = RDB /\ \A j \in 1..(i - 1) : stream[j] # RDB
    ELSE 0
AfterSnapshot(stream) == SubSeq(stream, SnapshotAt(stream) + 1, Len(stream))

\* The SETs a replica decodes from a stream of frames, in order.
SetsOfFrames(frames) ==
    LET cmds == [i \in DOMAIN frames |-> from_resp(<<frames[i]>>)]
        sets == SelectSeq(cmds, LAMBDA c : c.name = "Set")
    IN [i \in DOMAIN sets |-> <<sets[i].key, sets[i].value>>]
DecodedSets(bytes) ==
    LET r == ParseTop(lines(bytes), 1, <<>>) IN
    IF r.ok = "some" THEN SetsOfFrames(r.val) ELSE <<>>
\* The SETs of the primary a handle was in the registry for, in store order.
DueSets(h) ==
    LET due == SelectSeq(applied, LAMBDA a : a.node = Master /\ h \in a.reg)
    IN [i \in DOMAIN due |-> <<due[i].key, due[i].value>>]
\* The store a replica ends with once it has applied all it was sent.
RECURSIVE ApplySets(_, _)
ApplySets(sets, k) ==
    IF k = 0 THEN <<>> ELSE (sets[k][1] :> sets[k][2]) @@ ApplySets(sets, k - 1)
ReplicaStore(h) ==
    LET sets == DecodedSets(AfterSnapshot(s2c[h])) IN ApplySets(sets, Len(sets))

\* C1: on a primary, once a session is through with a SET k v (it is about
\* to reply +OK or has left the command), the frame Array[SET, k, v] has
\* been written to every handle that was in the registry, broken ones aside.
C1_PropagatedBeforeOk ==
    \A i \in DOMAIN applied :
        LET a == applied[i] IN
        (a.node = Master /\ ~Propagating(a.sess))
            => \A r \in a.reg \ broken : Occurs(WireSet(a.key, a.value), s2c[r])

\* C2: when two sessions of the primary have applied SETs of one key and
\* neither is still propagating, a registered replica has received the SET
\* frames in the order the store applied them, so its last value for the
\* key is the store's.
C2_SameOrderAsStore ==
    \A h \in Range(registry[Master]) \ broken :
        (/\ \A s \in PrimarySess : ~Propagating(s)
         /\ \E i, j \in DOMAIN applied :
               /\ applied[i].sess # applied[j].sess
               /\ applied[i].key = applied[j].key
               /\ h \in applied[i].reg /\ h \in applied[j].reg)
        => /\ DecodedSets(AfterSnapshot(s2c[h])) = DueSets(h)
           /\ \A k \in DOMAIN ReplicaStore(h) :
                 ReplicaStore(h)[k] = store[Master][k].value

\* C3: once the primary is through with a SET k v that it applied while a
\* replica was registered, and k was not set again, the replica's store maps
\* k to v as soon as the replica has applied what it was sent.
C3_ReplicasConverge ==
    \A i \in DOMAIN applied :
        LET a == applied[i] IN
        (/\ a.node = Master
         /\ \A s \in PrimarySess : ~Propagating(s)
         /\ \A j \in DOMAIN applied : j > i => applied[j].key # a.key)
        => \A h \in a.reg \ broken :
              /\ a.key \in DOMAIN ReplicaStore(h)
              /\ ReplicaStore(h)[a.key] = a.value

\* The frames that may follow the snapshot on a handle's stream: those of
\* SETs applied after the handle was registered.
LaterSets(h) ==
    {<<applied[j].key, applied[j].value>> : j \in {x \in DOMAIN applied : x > regAt[h]}}
WireSets(sets) == Flat([i \in DOMAIN sets |-> WireSet(sets[i][1], sets[i][2])], Len(sets))
WireFullResync == <<"+", "FULLRESYNC", " ", repl_id, " ", "0", CRLF>>
WireSnapshot == WireFullResync \o <<"$", "88", CRLF, RDB>>

\* C4: on the stream of every registered handle the FULLRESYNC line, the
\* $<n> header and the snapshot bytes stand together, once, no Array frame
\* precedes them, and what follows them is nothing but frames of SETs that
\* were applied after the handle was registered.
C4_SnapshotThenLaterWrites ==
    \A h \in PrimarySess :
        Registered(h) =>
            LET st == s2c[h]
                at == SnapshotAt(st)
                tail == AfterSnapshot(st)
                sets == DecodedSets(tail)
            IN
            /\ Count(RDB, st) = 1
            /\ at >= Len(WireSnapshot)
            /\ SubSeq(st, at - Len(WireSnapshot) + 1, at) = WireSnapshot
            /\ "*" \notin Range(SubSeq(st, 1, at))
            /\ tail = WireSets(sets)
            /\ \A i \in DOMAIN sets : sets[i] \in LaterSets(h)

\* A handle was registered after one SET was applied and before another,
\* and the primary is through with both.
C4_Witness ==
    \E h \in PrimarySess :
        /\ Registered(h)
        /\ regAt[h] >= 1
        /\ Len(applied) > regAt[h]
        /\ \A s \in PrimarySess : ~Propagating(s)

\* The commands of the handshake as the primary parses them, and the reply
\* to each.
HandshakeCmds ==
    << CmdPing, CmdReplConf(<<"listening-port", " ", "6380">>),
       CmdReplConf(<<"capa psync2">>), CmdPSync >>
HandshakeReplies ==
    << <<"+", "PONG", CRLF>>, WireOk, WireOk, WireSnapshot >>

\* C5: a session of the primary that has received PING, REPLCONF
\* listening-port, REPLCONF capa psync2 and PSYNC, in that order, has
\* written the replies to the commands before the last one whole, one after
\* the other, and of the last one a part; at its end it has written exactly
\* +PONG, +OK, +OK, the FULLRESYNC line, $<n> and n snapshot bytes with
\* nothing behind them.
C5_HandshakeReplies ==
    \A s \in PrimarySess :
        LET k == Len(inlog[s]) IN
        (k >= 1 /\ IsPrefix(inlog[s], HandshakeCmds)) =>
            /\ IsPrefix(Flat(HandshakeReplies, k - 1), s2c[s])
            /\ IsPrefix(s2c[s], Flat(HandshakeReplies, k))
            /\ (pc[s] = "read" \/ how[s] = "psync")
                  => s2c[s] = Flat(HandshakeReplies, k)
            /\ how[s] = "psync" =>
                  LET tail == SubSeq(s2c[s], Len(s2c[s]) - 3, Len(s2c[s])) IN
                  /\ k = 4
                  /\ tail[1] = "$" /\ tail[3] = CRLF
                  /\ IsNum(tail[2]) /\ NumOf(tail[2]) = ByteLen(<<tail[4]>>)
                  /\ tail[4] # CRLF

\* A session has served the whole handshake.
C5_Witness ==
    \E s \in PrimarySess :
        inlog[s] = HandshakeCmds /\ how[s] = "psync" /\ pc[s] = "done"

\* Where a handle is held: the registries and the sweeps in progress.
Holdings(h) ==
    Cardinality({<<n, i>> \in Nodes \X (1..(NMock + NWriters + 2)) :
                    i \in DOMAIN registry[n] /\ registry[n][i] = h})
    + Cardinality({<<s, i>> \in Sess \X (1..(NMock + NWriters + 2)) :
                    i \in DOMAIN sweep[s] /\ sweep[s][i] = h})

\* C6: a session that has served PSYNC has left its loop for good, PSYNC
\* being the last command it read, and once it is over its stream is held
\* by the registry exactly once; a session whose loop ended at EOF, on a
\* read error or on a write error, or whose task aborted, is not in the
\* registry.
C6_RegisteredOncePSyncOnly ==
    \A s \in Sess :
        /\ Holdings(s) <= 1
        /\ how[s] = "psync" =>
              /\ pc[s] \in {"exit", "done"}
              /\ inlog[s][Len(inlog[s])] = CmdPSync
              /\ pc[s] = "done" => Holdings(s) = 1
        /\ how[s] # "psync" => Holdings(s) = 0
        /\ pc[s] = "panicked" => Holdings(s) = 0

\* One session was registered after PSYNC while another ended at EOF or on
\* an error.
C6_Witness ==
    \E s, u \in Sess :
        /\ how[s] = "psync" /\ pc[s] = "done" /\ Holdings(s) = 1
        /\ how[u] \in {"eof", "write_error"} /\ pc[u] = "done"

\* C7: when the primary is through with a SET that met a registry handle
\* whose connection was down, the store holds the SET, the frame has been
\* written to the other handles, and the client, if it is still connected,
\* has been sent +OK.
C7_WriteFailureTolerated ==
    \A i \in DOMAIN applied :
        LET a == applied[i] IN
        (/\ a.node = Master
         /\ a.down # {}
         /\ ~Propagating(a.sess) /\ pc[a.sess] # "reply"
         /\ a.sess \notin broken)
        => /\ a.key \in DOMAIN store[Master]
           /\ \A r \in a.reg \ (a.down \cup broken) :
                 Occurs(WireSet(a.key, a.value), s2c[r])
           /\ Occurs(WireOk, s2c[a.sess])

\* C8: when the primary is through with a SET whose sweep met a registry
\* handle with a broken connection, that handle is no longer in the
\* registry.
C8_BrokenHandlePruned ==
    \A i \in DOMAIN applied :
        LET a == applied[i] IN
        (a.node = Master /\ ~Propagating(a.sess))
            => \A r \in a.down : r \notin Range(registry[Master])

\* The four messages of the secondary's handshake on the wire.
WireHandshake ==
    << Req(<<"PING">>), Req(<<"REPLCONF", "listening-port", "6380">>),
       Req(<<"REPLCONF", "capa", "psync2">>), Req(<<"PSYNC", "?", "-1">>) >>
\* The messages that have been sent when main stands at a place.
SentAt(stage) ==
    CASE stage \in {"start", "connect_failed", "send_ping"} -> {0}
      [] stage \in {"wait_pong", "send_port"} -> {1}
      [] stage \in {"wait_port", "send_capa"} -> {2}
      [] stage \in {"wait_capa", "send_psync"} -> {3}
      [] stage \in {"wait_fullresync", "wait_size", "wait_rdb", "spawn", "bind", "ok"} -> {4}
      [] OTHER -> 1..4

\* C9: the secondary has sent the first k of PING, REPLCONF listening-port,
\* REPLCONF capa psync2 and PSYNC, k being given by where it stands, and a
\* handshake that has ended after the connection was made has ended with
\* success or with an error returned after PING was sent.
C9_HandshakeInOrder ==
    /\ \E k \in SentAt(hs) : c2s[Up] = Flat(WireHandshake, k)
    /\ hs # "panicked"

\* C10: the secondary has accepted no connection unless its handshake has
\* succeeded, and when its handshake has ended without success the process
\* has exited with code 1.
C10_NoAcceptBeforeHandshake ==
    /\ \A c \in SClients : pc[c] # "none" => hs = "ok"
    /\ listening[Slave] => hs = "ok"
    /\ hs \in {"connect_failed", "failed", "panicked"} => exit_code = 1

\* C11: a secondary whose handshake is over, unless it ended with an error
\* returned, runs the consumer of the replication connection; every SET
\* frame the consumer has received is in the secondary's store; and the
\* secondary has written nothing on the connection but its handshake.
C11_ConsumerAppliesSilently ==
    /\ hs \in {"bind", "ok", "panicked"} => pc[Cons] # "none"
    /\ \A i \in DOMAIN inlog[Cons] :
          inlog[Cons][i].name = "Set" => inlog[Cons][i].key \in DOMAIN store[Slave]
    /\ IsPrefix(c2s[Up], Flat(WireHandshake, 4))

WirePong == <<"+", "PONG", CRLF>>

\* C12: a session that was sent PING and ECHO hey in one piece and has
\* taken them in has, when it next stands at its read, written +PONG and
\* then the BulkString hey.
C12_PipelinedInOrder ==
    \A s \in Writers :
        (/\ IsPrefix(PingEcho, c2s[s])
         /\ rdS[s] >= Len(PingEcho)
         /\ pc[s] = "read")
        => IsPrefix(WirePong \o WireBulk(<<"hey">>), s2c[s])

\* The SETs a session has applied.
AppliedBy(s) == SelectSeq(applied, LAMBDA a : a.sess = s)

\* C13: a session that has been sent only the first piece of SET bar c (the
\* Array header, SET and bar, the value still missing) has executed nothing:
\* it has applied no SET, bar is not in the store and nothing was written
\* back; once the second piece has arrived and been taken in, the session
\* has applied SET bar c, once.
C13_NoPartialDispatch ==
    \A s \in Writers :
        /\ c2s[s] = SetHead =>
              /\ AppliedBy(s) = <<>>
              /\ <<"bar">> \notin DOMAIN store[Master]
              /\ s2c[s] = <<>>
              /\ pc[s] = "read"
        /\ (c2s[s] = SetHead \o SetTail /\ rdS[s] = Len(c2s[s])) =>
              /\ Len(AppliedBy(s)) = 1
              /\ AppliedBy(s)[1].key = <<"bar">>
              /\ AppliedBy(s)[1].value = <<"c">>

WireNull == <<"$", "-1", CRLF>>
\* The session has taken in all it was sent, has executed nothing but GETs
\* and stands at its read.
IdleAfterGets(s) ==
    /\ pc[s] = "read" /\ rdS[s] = Len(c2s[s])
    /\ inlog[s] # <<>>
    /\ \A i \in DOMAIN inlog[s] : inlog[s][i].name = "Get"
\* The entry a GET met, if any.
Met(g) == CHOOSE item \in g.held : TRUE

\* The answer due to a GET that met no entry or an entry without a duration.
DueReply(g) == IF g.held = {} THEN WireNull ELSE WireBulk(Met(g).value)

\* C14: the answers a session has written to its GETs are, for each GET in
\* order, the BulkString of the value the last SET of the key (by whatever
\* connection, without a duration) left in the store, and NullBulk when the
\* key was never set.
C14_GetReturnsBulk ==
    \A s \in Writers :
        (/\ IdleAfterGets(s)
         /\ \A i \in DOMAIN got[s] : \A item \in got[s][i].held : item.expires = NoTtl)
        => s2c[s] = Flat([i \in DOMAIN got[s] |-> DueReply(got[s][i])], Len(got[s]))

\* The answer due to a GET at its clock reading.
DueReplyAt(g) ==
    IF g.held = {} THEN WireNull
    ELSE IF Met(g).expires = NoTtl \/ g.at - Met(g).created < Met(g).expires
         THEN WireBulk(Met(g).value)
         ELSE WireNull

\* C15: the answers a session has written to GETs of a key that was set
\* are, for each GET in order, the value while less than the duration given
\* with PX has passed since the SET, NullBulk from then on, and always the
\* value when the SET gave no duration.
C15_ExpiryOnRead ==
    \A s \in Writers :
        (/\ IdleAfterGets(s)
         /\ \A i \in DOMAIN got[s] : got[s][i].held # {})
        => s2c[s] = Flat([i \in DOMAIN got[s] |-> DueReplyAt(got[s][i])], Len(got[s]))

KeysStar == Req(<<"KEYS", "*">>)
\* The first frame of a stream, decoded.
FirstFrame(stream) ==
    LET r == ParseTop(lines(stream), 1, <<>>) IN
    IF r.ok = "some" /\ r.val # <<>> THEN r.val[1] ELSE NullBulkString
\* The frame is an Array of distinct BulkStrings taken from the set K.
IsKeyArray(f, K) ==
    /\ f.type = "Array"
    /\ \A i \in DOMAIN f.v : f.v[i].type = "BulkString" /\ f.v[i].s \in K
    /\ \A i, j \in DOMAIN f.v : f.v[i].s = f.v[j].s => i = j

\* C16: a session that has taken in KEYS * as its first command has not
\* aborted and has left the store usable; when it stands at its read again
\* it has written an Array of BulkStrings, each a key that was set, none
\* twice, and an empty Array when no key was ever set.
C16_KeysListsStore ==
    \A s \in Writers :
        (IsPrefix(KeysStar, c2s[s]) /\ rdS[s] >= Len(KeysStar)) =>
            /\ pc[s] # "panicked"
            /\ ~poisoned[Master]
            /\ pc[s] = "read" =>
                  IsKeyArray(FirstFrame(s2c[s]), {applied[i].key : i \in DOMAIN applied})

Flushall == Req(<<"FLUSHALL">>)
\* The SimpleString -ERR Unknown command on the wire.
WireErr == <<"+", "-ERR Unknown command", CRLF>>

\* C17: a session whose first command was FLUSHALL, which is not a
\* supported name, has parsed it as Unknown; until it takes in a further
\* command it is neither ended nor aborted, has applied nothing to the
\* store and is not in the registry; it answers
\* with the SimpleString -ERR Unknown command; and a PING that follows on
\* the connection is answered +PONG.
C17_UnknownKeepsOpen ==
    \A s \in Writers :
        (IsPrefix(Flushall, c2s[s]) /\ rdS[s] >= Len(Flushall)) =>
            /\ inlog[s][1] = CmdUnknown
            /\ Len(inlog[s]) = 1 =>
                  /\ pc[s] \in {"reply", "read"} /\ how[s] = "running"
                  /\ AppliedBy(s) = <<>>
                  /\ ~Registered(s)
                  /\ s2c[s] = IF pc[s] = "read" THEN WireErr ELSE <<>>
            /\ (/\ Len(inlog[s]) >= 2 /\ inlog[s][2] = CmdPing
                /\ (pc[s] = "read" \/ Len(inlog[s]) >= 3)) =>
                  IsPrefix(WireErr \o WirePong, s2c[s])

\* A session has answered FLUSHALL and then a PING.
C17_Witness ==
    \E s \in Writers :
        /\ c2s[s] = Flushall \o Req(<<"PING">>)
        /\ inlog[s] = <<CmdUnknown, CmdPing>>
        /\ pc[s] = "read"
        /\ s2c[s] = WireErr \o WirePong

\* Commands of a wrong arity or shape.
BadShapes ==
    { Req(<<"SET", "foo">>), Req(<<"SET", "foo", "a", "EX", "10">>),
      Req(<<"SET", "foo", "a", "PX", "abc">>), Req(<<"CONFIG", "GET", "maxmemory">>),
      Req(<<"PING", "hey">>), Req(<<"PSYNC">>) }

\* C18: a session whose first command was SET without a value, SET with EX
\* in place of PX, SET with a non-numeric duration, CONFIG GET of an unknown
\* name, PING with an argument or PSYNC without arguments has parsed it as
\* Unknown; until it takes in a further command it is neither ended nor
\* aborted, has applied nothing to the store, is not serving PSYNC and is
\* not in the registry, and it answers -ERR Unknown command.
C18_BadShapeIsUnknown ==
    \A s \in Writers : \A bad \in BadShapes :
        (IsPrefix(bad, c2s[s]) /\ rdS[s] >= Len(bad)) =>
            /\ inlog[s][1] = CmdUnknown
            /\ Len(inlog[s]) = 1 =>
                  /\ pc[s] \in {"reply", "read"} /\ how[s] = "running"
                  /\ AppliedBy(s) = <<>>
                  /\ ~Registered(s)
                  /\ s2c[s] = IF pc[s] = "read" THEN WireErr ELSE <<>>

\* What a decode error on the connection of s must leave behind: the
\* session over and its stream dropped, nothing applied by it, the store
\* usable, s not in the registry, and every other session that has met
\* nothing but GET and PING still running on a working connection.
ClosedAlone(s) ==
    /\ SessionGone(s)
    /\ AppliedBy(s) = <<>>
    /\ ~Registered(s)
    /\ s2c[s] = <<>>
    /\ ~poisoned[Master]
    /\ \A u \in Writers \ {s} :
          (\A i \in DOMAIN inlog[u] : inlog[u][i].name \in {"Get", "Ping"})
              => /\ pc[u] \in {"none", "read", "reply"}
                 /\ u \notin broken
                 /\ pc[u] = "read" /\ rdS[u] = Len(c2s[u]) /\ inlog[u] # <<>>
                       => s2c[u] # <<>>

\* C19: a session that has taken in, as the first thing on its connection,
\* a frame whose bulk length differs from the declared one, a bulk header
\* that is not a number, or a line with an unknown prefix, is closed, and
\* closed alone.
C19_DecodeErrorClosesOne ==
    \A s \in Writers : \A bad \in {BadLength, BadBulkHeader, BadPrefix} :
        (IsPrefix(bad, c2s[s]) /\ rdS[s] >= Len(bad) /\ pc[s] # "reply")
            => ClosedAlone(s)

\* The places where a session is inside a socket write: the reply, the
\* three writes of the PSync arm, the write to a replica.
WritePlaces == {"reply", "psync1", "psync2", "psync3", "sweep"}

\* C20: a session that stands at a socket write holds no guard of the
\* store.
C20_NoWriteUnderLock ==
    \A s \in Sess : pc[s] \in WritePlaces => ~HoldsStoreLock(s)

\* A session is about to write the reply to a GET, whose arm locked the
\* store, while another has inserted into the store and is propagating.
C20_Witness ==
    \E s, u \in Sess :
        /\ pc[s] = "reply" /\ command[s].name = "Get"
        /\ pc[u] = "propagate" /\ command[u].name = "Set"

ConfigGetDir == Req(<<"CONFIG", "GET", "dir">>)
ConfigGetDbfilename == Req(<<"CONFIG", "GET", "dbfilename">>)
\* The wire form of Array[BulkString name, BulkString value].
WirePair(name, value) == <<"*", "2", CRLF>> \o WireBulk(name) \o WireBulk(value)
\* The session has taken in `req` as its first command.
TookFirst(s, req) == IsPrefix(req, c2s[s]) /\ rdS[s] >= Len(req)

\* C21: on a primary started with --dir and --dbfilename, a session that has
\* taken in CONFIG GET dir (CONFIG GET dbfilename) as its first command has
\* not aborted, and when it stands at its read again it has written the
\* two-element Array of the option's name and its configured value.
C21_ConfigGetPair ==
    \A s \in Writers :
        /\ (disk.configured /\ TookFirst(s, ConfigGetDir)) =>
              /\ pc[s] # "panicked"
              /\ pc[s] = "read" => IsPrefix(WirePair(<<"dir">>, config_dir), s2c[s])
        /\ (disk.configured /\ TookFirst(s, ConfigGetDbfilename)) =>
              /\ pc[s] # "panicked"
              /\ pc[s] = "read" =>
                    IsPrefix(WirePair(<<"dbfilename">>, config_dbfilename), s2c[s])

\* C22: a frame that has gone through serialize did not abort there; the
\* bytes of a BulkString carry the byte length of its content; the decoder
\* did not abort on the bytes, and what it gave back is the frame itself.
C22_CodecRoundTrip ==
    /\ codec.stage # "serialize_panicked"
    /\ (codec.stage \in {"wire", "decoded", "decode_panicked"}
          /\ codec.frame.type = "BulkString")
           => codec.wire[2] = ToString(ByteLen(codec.frame.s))
    /\ codec.stage # "decode_panicked"
    /\ codec.stage = "decoded" => codec.back = <<codec.frame>>

\* The expiry of a record of the file in milliseconds since the epoch.
ExpiryMs(r) ==
    CASE r.kind = "FC" -> r.at [] r.kind = "FD" -> r.at * 1000 [] OTHER -> NoExpiry
\* The GET was answered as for an absent key.
ReportedAbsent(g) == g.held = {} \/ is_expired(Met(g), g.at)

\* C23: once the primary has loaded its snapshot file, a record whose
\* expiry (FC or FD) was past at the load is not in the store; a record
\* without expiry is in the store with its value and is not expired; and a
\* GET of a record with a future expiry met its value before that time and
\* was answered as absent after it.
C23_LoaderExpiry ==
    (listening[Master] /\ disk.present) =>
        \A i \in DOMAIN disk.records :
            LET r == disk.records[i]
                k == from_utf8_lossy(r.key)
                e == ExpiryMs(r)
            IN  /\ (e # NoExpiry /\ e < WallClock(0)) => k \notin DOMAIN store[Master]
                /\ e = NoExpiry =>
                      /\ k \in DOMAIN store[Master]
                      /\ store[Master][k].value = from_utf8_lossy(r.value)
                      /\ ~is_expired(store[Master][k], now)
                /\ e >= WallClock(0) =>
                      \A s \in Writers : \A j \in DOMAIN got[s] :
                          LET g == got[s][j] IN
                          g.key = k =>
                              IF WallClock(g.at) > e THEN ReportedAbsent(g)
                              ELSE /\ g.held # {}
                                   /\ Met(g).value = from_utf8_lossy(r.value)
                                   /\ ~ReportedAbsent(g)

\* C24: an entry that a GET met after its duration had passed is no longer
\* in the store once that GET has been handled, so that no later KEYS can
\* list its key.
C24_ExpiredRemovedOnRead ==
    \A s \in Writers : \A i \in DOMAIN got[s] :
        LET g == got[s][i] IN
        \A item \in g.held :
            is_expired(item, g.at) =>
                ~(g.key \in DOMAIN store[Master] /\ store[Master][g.key] = item)

\* C25: on a primary, once a session is through with a SET k v, the frame
\* Array[SET, k, v] has been written to every handle that was appended to
\* the registry before the SET was applied, whatever sweeps of other
\* sessions were under way at that time, broken handles aside.
C25_SweepHidesNoReplica ==
    \A i \in DOMAIN applied :
        LET a == applied[i] IN
        (a.node = Master /\ ~Propagating(a.sess)) =>
            \A h \in PrimarySess \ broken :
                (regAt[h] >= 0 /\ regAt[h] < i) =>
                    Occurs(WireSet(a.key, a.value), s2c[h])

\* The connection has served PSYNC and add_replica has taken its stream.
ServedPSync(h) == how[h] = "psync" /\ pc[h] = "done"

\* C26: whenever no session of the primary is inside propagate_command,
\* the registry holds the stream of every connection that has served
\* PSYNC exactly once and holds no other stream, and no sweep has kept a
\* stream back.
C26_RegistryKeepsHandles ==
    (\A s \in PrimarySess : ~Propagating(s)) =>
        /\ \A h \in PrimarySess :
              Count(h, registry[Master]) = IF ServedPSync(h) THEN 1 ELSE 0
        /\ \A s \in PrimarySess : sweep[s] = <<>>

\* A SET met a registered stream, the propagate_command it called is over,
\* and the stream is in the registry once.
C26_Witness ==
    \E i \in DOMAIN applied : \E h \in PrimarySess :
        /\ applied[i].node = Master /\ h \in applied[i].reg
        /\ \A s \in PrimarySess : ~Propagating(s)
        /\ ServedPSync(h) /\ regAt[h] < i
        /\ Count(h, registry[Master]) = 1

\* C27: no session has aborted while it held the store mutex, and a
\* session that has sent nothing but GETs has not aborted, whatever the
\* other sessions have sent.
C27_StoreStaysAvailable ==
    /\ ~poisoned[Master]
    /\ \A s \in Writers :
          (inlog[s] # <<>> /\ \A i \in DOMAIN inlog[s] : inlog[s][i].name = "Get")
              => pc[s] # "panicked"

\* C28: the secondary does not abort on its way to the consumer, and when
\* send_psync hands the connection over, its reader holds no byte that the
\* primary sent after the snapshot: the consumer reads all of them.
C28_NoBytesLostAtBoundary ==
    /\ hs # "panicked"
    /\ hs = "spawn" => rbuf = <<>>

\* The streams the registries and the sweeps own, now and after the step.
Members == {h \in Sess : Registered(h)}
MembersNext ==
    {h \in Sess : \/ \E n \in Nodes : h \in Range(registry'[n])
                  \/ \E s \in Sess : h \in Range(sweep'[s])}
\* The name and the key of the first frame of what the session is to read.
FrameName(s) ==
    LET ls == lines(Unread(s)) IN IF Len(ls) >= 3 THEN to_lowercase(ls[3]) ELSE <<>>
FrameKey(s) ==
    LET ls == lines(Unread(s)) IN IF Len(ls) >= 5 THEN ls[5] ELSE <<>>
\* A step that changes a store is the handling of a SET frame by a session
\* of that node, and every entry but that of the frame's key is as before.
StoreFrame ==
    \A n \in Nodes :
        store'[n] # store[n] =>
            \E s \in Sess :
                /\ NodeOf(s) = n /\ pc[s] = "read"
                /\ Len(inlog'[s]) = Len(inlog[s]) + 1
                /\ FrameName(s) = <<"set">>
                /\ \A k \in (DOMAIN store[n] \cup DOMAIN store'[n]) \ {FrameKey(s)} :
                      /\ k \in DOMAIN store[n] /\ k \in DOMAIN store'[n]
                      /\ store'[n][k] = store[n][k]
\* A step that changes the membership of the registry adds the stream of a
\* session that has left its loop after PSYNC.
RegistryFrame ==
    MembersNext # Members =>
        \E s \in Sess :
            /\ pc[s] = "exit" /\ pc'[s] = "done"
            /\ how[s] = "psync" /\ inlog[s][Len(inlog[s])] = CmdPSync
            /\ MembersNext = Members \cup {s}

\* C29: every step that changes the store is the handling of a SET frame
\* and changes the entry of that frame's key only, so PING, ECHO, GET, KEYS,
\* CONFIG GET, INFO, REPLCONF, PSYNC and unknown commands change no entry;
\* and every step that changes which streams the registry owns is the
\* registration of a session that served PSYNC.
C29_FrameEffects == [][StoreFrame /\ RegistryFrame]_vars

\* A SET has changed the store and a served PSYNC has changed the registry.
C29_Witness ==
    /\ store[Master] # <<>>
    /\ \E h \in Writers : h \in Range(registry[Master]) /\ how[h] = "psync"

====
